---- MODULE Spec2Model ----
(***************************************************************************)
(* Agent routing and call-session core of the IVR application.             *)
(*                                                                         *)
(*   services/agent_heap.py   AgentHeapManager (two heapq heaps, busy map)  *)
(*   services/call_manager.py active_calls and its five functions           *)
(*   models/__init__.py       Agent.calculate_priority_score/update_metrics *)
(*   app.py                   the Flask handlers that drive them            *)
(*                                                                         *)
(* Python floats are modelled as exact rationals <<n, d>> (d >= 0, reduced; *)
(* <<1, 0>> is float('inf')).  Every `with self.lock:` body is one atomic   *)
(* action.  Request handlers run on worker threads; a handler is cut into   *)
(* steps at the places where it touches the shared structures.              *)
(***************************************************************************)
EXTENDS Integers, Sequences, FiniteSets, TLC

\* ------------------------------------------------------------------ bounds
\* release_agent is explored while the agents' total_calls add up to less than
\* this, update_agent_feedback while their feedback_count do.
MaxTotalCalls == 2

\* ------------------------------------------------------------- the inputs
None == "None"
AgentIds == {1, 2}
CallIds == {"c1"}
\* Worker threads; a request is handed to the first free one.
Threads == {1, 2}
\* What a session's language can be, and what get_best_agent can be handed.
Languages == {"english", "spanish"}
\* Digits a caller can press at the language prompt (request.values 'Digits').
LanguageDigits == {"1", "2", "9"}
\* Digits at the action menu.
ActionDigits == {"1", "2", "9"}
\* Digits at the feedback prompt; None is "no digit delivered".
FeedbackDigits == {None, "4", "9"}
\* DialStatus of /ivr/feedback; None is the simulated call.
DialStatuses == {None, "completed", "failed"}
\* The seconds datetime.utcnow() can read.
Seconds == {0, 1}

\* The registry rows' immutable columns: Agent.language.
AgentLanguage(a) == IF a = 2 THEN "spanish" ELSE "english"

\* ---------------------------------------------------------------- rationals
RECURSIVE Gcd(_, _)
Gcd(a, b) == IF b = 0 THEN a ELSE Gcd(b, a % b)

Abs(x) == IF x < 0 THEN -x ELSE x

\* The reduced form of n/d, d > 0.
Rat(n, d) == LET g == Gcd(Abs(n), d) IN <<n \div g, d \div g>>

Inf == <<1, 0>>
RInt(k) == <<k, 1>>
RAdd(p, q) == Rat(p[1] * q[2] + q[1] * p[2], p[2] * q[2])
RSub(p, q) == Rat(p[1] * q[2] - q[1] * p[2], p[2] * q[2])
RMul(p, q) == Rat(p[1] * q[1], p[2] * q[2])
\* p / k for an integer k > 0.
RDivInt(p, k) == Rat(p[1], p[2] * k)
RLess(p, q) == p[1] * q[2] < q[1] * p[2]

\* ------------------------------------------------------------------- Agent
\* A registry row as the database holds it after construction.
NewAgent ==
    [is_available |-> TRUE, total_calls |-> 0, avg_call_duration |-> RInt(0),
     recent_call_count |-> 0, total_feedback_score |-> 0, feedback_count |-> 0]

\* calculate_priority_score without the feedback bonus.
calculate_priority_score_NoBonus(ag) ==
    IF ~ag.is_available THEN Inf
    ELSE RAdd(RInt(ag.recent_call_count * 10), RDivInt(ag.avg_call_duration, 60))

\* Agent.calculate_priority_score
calculate_priority_score(ag) ==
    IF ~ag.is_available THEN Inf
    ELSE LET s1 == RInt(ag.recent_call_count * 10)
             s2 == RAdd(s1, RDivInt(ag.avg_call_duration, 60))
         IN IF ag.feedback_count > 0
            THEN RSub(s2, RMul(Rat(ag.total_feedback_score, ag.feedback_count), RInt(5)))
            ELSE s2

\* Agent.update_metrics
update_metrics(ag, call_duration) ==
    LET total_duration == RMul(ag.avg_call_duration, RInt(ag.total_calls))
        n == ag.total_calls + 1
    IN [ag EXCEPT !.total_calls = n,
                  !.avg_call_duration = RDivInt(RAdd(total_duration, RInt(call_duration)), n),
                  !.recent_call_count = ag.recent_call_count + 1]

\* -------------------------------------------------------------------- heapq
\* A heap entry is the tuple (priority, agent.id, agent.phone_number); the phone
\* number is a function of the id and is never reached by the comparison.
Entry(ag, a) == [score |-> calculate_priority_score(ag), id |-> a]

\* A comparison of entries by agent id alone.
EntryLess_IdOnly(e, f) == e.id < f.id

\* Python's tuple comparison of two entries.
EntryLess(e, f) ==
    \/ RLess(e.score, f.score)
    \/ (e.score = f.score /\ e.id < f.id)

\* heapq._siftdown on the 1-based list h.
RECURSIVE SiftDownLoop(_, _, _, _)
SiftDownLoop(h, newitem, startpos, pos) ==
    IF pos > startpos /\ EntryLess(newitem, h[pos \div 2])
    THEN SiftDownLoop([h EXCEPT ![pos] = h[pos \div 2]], newitem, startpos, pos \div 2)
    ELSE [h EXCEPT ![pos] = newitem]

\* heapq._siftup on the 1-based list h.
RECURSIVE SiftUpLoop(_, _, _, _)
SiftUpLoop(h, newitem, startpos, pos) ==
    LET childpos == 2 * pos
        rightpos == childpos + 1
        c == IF rightpos <= Len(h) /\ ~EntryLess(h[childpos], h[rightpos])
             THEN rightpos ELSE childpos
    IN IF childpos <= Len(h)
       THEN SiftUpLoop([h EXCEPT ![pos] = h[c]], newitem, startpos, c)
       ELSE SiftDownLoop([h EXCEPT ![pos] = newitem], newitem, startpos, pos)

heappush(h, item) == SiftDownLoop(Append(h, item), item, 1, Len(h) + 1)

\* heapq.heappop: the returned item and the list left behind.
heappop(h) ==
    LET lastelt == h[Len(h)]
        rest == SubSeq(h, 1, Len(h) - 1)
    IN IF rest = <<>>
       THEN [item |-> lastelt, heap |-> rest]
       ELSE [item |-> rest[1], heap |-> SiftUpLoop([rest EXCEPT ![1] = lastelt], lastelt, 1, 1)]

\* ------------------------------------------------------------------- state
VARIABLES
    agents,        \* the agents table: id -> row
    english_heap,  \* AgentHeapManager.english_heap
    spanish_heap,  \* AgentHeapManager.spanish_heap
    busy_agents,   \* AgentHeapManager.busy_agents: agent_id -> call_uuid
    active_calls,  \* call_manager.active_calls: call_uuid -> session
    call_logs,     \* the call_uuids that have a call_logs row
    thr,           \* each worker thread's handler, position and locals
    last,          \* the last operation on the dispatcher or the session store, and its outcome
    held,          \* agents returned by get_best_agent and not released since
    ended          \* call_uuids whose session end_call_session removed, not created since

vars == <<agents, english_heap, spanish_heap, busy_agents, active_calls,
          call_logs, thr, last, held, ended>>

dispatcher == <<agents, english_heap, spanish_heap, busy_agents>>

\* Python's None where an agent id is expected (`if not agent_id`).
NoAgent == 0

\* A session as create_call_session makes it (customer_phone is not modelled).
NewSession(t) == [language |-> None, agent_id |-> NoAgent, start_time |-> t]

\* end_call_session's None in place of a session.
NoSession == [language |-> None, agent_id |-> NoAgent, start_time |-> -1]

Idle == [pc |-> "idle", call |-> None, agent_id |-> NoAgent, rating |-> 0, duration |-> 0]

Did(op, call, out, a) == [op |-> op, call |-> call, out |-> out, agent_id |-> a]

\* Thread t is the first free worker.
CanBegin(t) == thr[t].pc = "idle" /\ \A u \in Threads : u < t => thr[u].pc # "idle"

\* ------------------------------------------------------- AgentHeapManager
\* The heap contents initialize_heaps builds: the rows of Agent.query.all(), in
\* primary-key order, pushed when available.
RECURSIVE BuildHeap(_, _, _, _)
BuildHeap(ags, lang, a, h) ==
    IF a > Cardinality(AgentIds) THEN h
    ELSE BuildHeap(ags, lang, a + 1,
                   IF ags[a].is_available /\ AgentLanguage(a) = lang
                   THEN heappush(h, Entry(ags[a], a)) ELSE h)

\* initialize_heaps without the two clear() calls.
initialize_heaps_NoClear(ags, eh, sh) ==
    [english |-> BuildHeap(ags, "english", 1, eh),
     spanish |-> BuildHeap(ags, "spanish", 1, sh)]

\* initialize_heaps: both heaps are rebuilt; busy_agents is not touched.
initialize_heaps(ags, eh, sh) ==
    [english |-> BuildHeap(ags, "english", 1, <<>>),
     spanish |-> BuildHeap(ags, "spanish", 1, <<>>)]

\* Selectable without the look at busy_agents.
Selectable_NoBusyCheck(ags, busy, a) == ags[a].is_available

\* The condition under which get_best_agent takes the popped entry.
Selectable(ags, busy, a) == ags[a].is_available /\ a \notin DOMAIN busy

\* The while loop of get_best_agent: the heap left and the agent taken (or None).
RECURSIVE PopLoop(_, _, _)
PopLoop(h, ags, busy) ==
    IF h = <<>> THEN [heap |-> h, agent_id |-> NoAgent]
    ELSE LET p == heappop(h)
         IN IF Selectable(ags, busy, p.item.id)
            THEN [heap |-> p.heap, agent_id |-> p.item.id]
            ELSE PopLoop(p.heap, ags, busy)

\* Which heap get_best_agent works on.
UsesEnglishHeap(language) == language = "english"

\* get_best_agent going to the other heap when the language's own is empty.
get_best_agent_Fallback(ags, eh, sh, busy, language) ==
    LET english == IF UsesEnglishHeap(language) THEN eh # <<>> ELSE sh = <<>>
        r == PopLoop(IF english THEN eh ELSE sh, ags, busy)
    IN [english |-> IF english THEN r.heap ELSE eh,
        spanish |-> IF english THEN sh ELSE r.heap,
        agents |-> IF r.agent_id = NoAgent THEN ags
                   ELSE [ags EXCEPT ![r.agent_id].is_available = FALSE],
        agent_id |-> r.agent_id]

\* get_best_agent without `agent.is_available = False`.
get_best_agent_NoMark(ags, eh, sh, busy, language) ==
    LET r == PopLoop(IF UsesEnglishHeap(language) THEN eh ELSE sh, ags, busy)
    IN [english |-> IF UsesEnglishHeap(language) THEN r.heap ELSE eh,
        spanish |-> IF UsesEnglishHeap(language) THEN sh ELSE r.heap,
        agents |-> ags,
        agent_id |-> r.agent_id]

\* get_best_agent: the new heaps and rows, and what it returns.
get_best_agent(ags, eh, sh, busy, language) ==
    LET r == PopLoop(IF UsesEnglishHeap(language) THEN eh ELSE sh, ags, busy)
    IN [english |-> IF UsesEnglishHeap(language) THEN r.heap ELSE eh,
        spanish |-> IF UsesEnglishHeap(language) THEN sh ELSE r.heap,
        agents |-> IF r.agent_id = NoAgent THEN ags
                   ELSE [ags EXCEPT ![r.agent_id].is_available = FALSE],
        agent_id |-> r.agent_id]

\* busy_agents[agent_id] = call_uuid
SetBusy(busy, a, c) == [x \in DOMAIN busy \cup {a} |-> IF x = a THEN c ELSE busy[x]]

\* del busy_agents[agent_id], when present
ClearBusy(busy, a) == [x \in DOMAIN busy \ {a} |-> busy[x]]

\* mark_agent_busy
mark_agent_busy(ags, busy, a, c) ==
    [busy |-> SetBusy(busy, a, c),
     agents |-> [ags EXCEPT ![a].is_available = FALSE]]

\* release_agent without the heappush.
release_agent_NoPush(ags, eh, sh, busy, a, call_duration) ==
    [busy |-> ClearBusy(busy, a),
     agents |-> [ags EXCEPT ![a] = [update_metrics(ags[a], call_duration)
                                      EXCEPT !.is_available = TRUE]],
     english |-> eh,
     spanish |-> sh]

\* release_agent without `del self.busy_agents[agent_id]`.
release_agent_KeepsBusy(ags, eh, sh, busy, a, call_duration) ==
    LET row == [update_metrics(ags[a], call_duration) EXCEPT !.is_available = TRUE]
        e == Entry(row, a)
    IN [busy |-> busy,
        agents |-> [ags EXCEPT ![a] = row],
        english |-> IF AgentLanguage(a) = "english" THEN heappush(eh, e) ELSE eh,
        spanish |-> IF AgentLanguage(a) = "spanish" THEN heappush(sh, e) ELSE sh]

\* release_agent
release_agent(ags, eh, sh, busy, a, call_duration) ==
    LET row == [update_metrics(ags[a], call_duration) EXCEPT !.is_available = TRUE]
        e == Entry(row, a)
    IN [busy |-> ClearBusy(busy, a),
        agents |-> [ags EXCEPT ![a] = row],
        english |-> IF AgentLanguage(a) = "english" THEN heappush(eh, e) ELSE eh,
        spanish |-> IF AgentLanguage(a) = "spanish" THEN heappush(sh, e) ELSE sh]

\* update_agent_feedback
update_agent_feedback(ags, a, rating) ==
    [ags EXCEPT ![a].total_feedback_score = @ + rating,
                ![a].feedback_count = @ + 1]

\* ------------------------------------------------------------ call_manager
\* create_call_session
create_call_session(calls, c, t) ==
    [x \in DOMAIN calls \cup {c} |->
        IF x = c THEN NewSession(t)
        ELSE calls[x]]

\* update_call_language
update_call_language(calls, c, language) ==
    IF c \in DOMAIN calls THEN [calls EXCEPT ![c].language = language] ELSE calls

\* update_call_agent
update_call_agent(calls, c, a) ==
    IF c \in DOMAIN calls THEN [calls EXCEPT ![c].agent_id = a] ELSE calls

\* end_call_session without `del active_calls[call_uuid]`.
RemoveSession_Keeps(calls, c) == calls

\* del active_calls[call_uuid]
RemoveSession(calls, c) == [x \in DOMAIN calls \ {c} |-> calls[x]]

\* The counters the exploration is cut on.
RECURSIVE SumOver(_, _, _)
SumOver(ags, field, a) ==
    IF a > Cardinality(AgentIds) THEN 0 ELSE ags[a][field] + SumOver(ags, field, a + 1)

TotalCalls(ags) == SumOver(ags, "total_calls", 1)
TotalFeedback(ags) == SumOver(ags, "feedback_count", 1)

\* ------------------------------------------------------------------ app.py
\* language_map.get(digit) of ivr_language
language_map(digit) ==
    IF digit = "1" THEN "english" ELSE IF digit = "2" THEN "spanish" ELSE None

\* What ivr_language answers once the digit is a language: the redirect to the
\* menu follows update_call_language whatever it did.
ivr_language_response(calls, c, language) == "redirect_menu"

\* The rating plivo_callback reads from the feedback digit (0: none is processed).
Rating(digit) ==
    IF digit = "1" THEN 1 ELSE IF digit = "2" THEN 2
    ELSE IF digit = "3" THEN 3 ELSE IF digit = "4" THEN 4 ELSE 0

Init ==
    /\ agents = [a \in AgentIds |-> NewAgent]
    /\ english_heap = initialize_heaps([a \in AgentIds |-> NewAgent], <<>>, <<>>).english
    /\ spanish_heap = initialize_heaps([a \in AgentIds |-> NewAgent], <<>>, <<>>).spanish
    /\ busy_agents = <<>>
    /\ active_calls = <<>>
    /\ call_logs = {}
    /\ thr = [t \in Threads |-> Idle]
    /\ last = Did("init_db", None, "started", NoAgent)
    /\ held = {}
    /\ ended = {}

\* The readings datetime.utcnow() can give once session c exists: the clock does
\* not run backwards past the session's start_time.
Clock(c) ==
    {tm \in Seconds : c \in DOMAIN active_calls => tm >= active_calls[c].start_time}

\* /ivr/start up to the CallLog lookup: a call that has its row is only prompted.
ivr_start(t, c) ==
    /\ CanBegin(t)
    /\ IF c \in call_logs
       THEN /\ UNCHANGED last
            /\ UNCHANGED thr
       ELSE /\ thr' = [thr EXCEPT ![t] = [Idle EXCEPT !.pc = "start_create", !.call = c]]
            /\ UNCHANGED last
    /\ UNCHANGED <<dispatcher, active_calls, call_logs, held, ended>>

\* /ivr/start from create_call_session to the commit of the CallLog row, which
\* fails on the unique call_uuid when another request inserted it meanwhile.
ivr_start_create(t) ==
    /\ thr[t].pc = "start_create"
    /\ \E tm \in Clock(thr[t].call) :
         active_calls' = create_call_session(active_calls, thr[t].call, tm)
    /\ call_logs' = call_logs \cup {thr[t].call}
    /\ ended' = ended \ {thr[t].call}
    /\ thr' = [thr EXCEPT ![t] = Idle]
    /\ last' = Did("create_call_session", thr[t].call,
                   IF thr[t].call \in call_logs THEN "integrity_error" ELSE "language_prompt",
                   NoAgent)
    /\ UNCHANGED <<dispatcher, held>>

\* /ivr/language
ivr_language(t, c, digit) ==
    /\ CanBegin(t)
    /\ IF language_map(digit) = None
       THEN /\ UNCHANGED last
            /\ UNCHANGED active_calls
       ELSE /\ active_calls' = update_call_language(active_calls, c, language_map(digit))
            /\ last' = Did("update_call_language", c,
                           ivr_language_response(active_calls, c, language_map(digit)), NoAgent)
    /\ UNCHANGED <<dispatcher, call_logs, thr, held, ended>>

\* /ivr/menu
ivr_menu(t, c) ==
    /\ CanBegin(t)
    /\ UNCHANGED vars

\* /ivr/action up to the return of get_best_agent.
ivr_action(t, c, digit) ==
    /\ CanBegin(t)
    /\ IF c \notin DOMAIN active_calls
       THEN /\ UNCHANGED last
            /\ UNCHANGED <<dispatcher, thr, held>>
       ELSE IF digit = "1"
       THEN /\ UNCHANGED last
            /\ UNCHANGED <<dispatcher, thr, held>>
       ELSE IF digit = "2"
       THEN LET r == get_best_agent(agents, english_heap, spanish_heap, busy_agents,
                                    active_calls[c].language)
            IN /\ agents' = r.agents
               /\ english_heap' = r.english
               /\ spanish_heap' = r.spanish
               /\ UNCHANGED busy_agents
               /\ IF r.agent_id = NoAgent
                  THEN /\ last' = Did("get_best_agent", c, "no_agent", NoAgent)
                       /\ UNCHANGED <<thr, held>>
                  ELSE /\ last' = Did("get_best_agent", c, "agent", r.agent_id)
                       /\ thr' = [thr EXCEPT ![t] = [Idle EXCEPT !.pc = "action_mark",
                                                     !.call = c, !.agent_id = r.agent_id]]
                       /\ held' = held \cup {r.agent_id}
       ELSE /\ UNCHANGED last
            /\ UNCHANGED <<dispatcher, thr, held>>
    /\ UNCHANGED <<active_calls, call_logs, ended>>

\* /ivr/action from mark_agent_busy to update_call_agent.
ivr_action_mark(t) ==
    /\ thr[t].pc = "action_mark"
    /\ LET r == mark_agent_busy(agents, busy_agents, thr[t].agent_id, thr[t].call)
       IN /\ agents' = r.agents
          /\ busy_agents' = r.busy
    /\ active_calls' = update_call_agent(active_calls, thr[t].call, thr[t].agent_id)
    /\ thr' = [thr EXCEPT ![t] = Idle]
    /\ last' = Did("mark_agent_busy", thr[t].call, "connected", NoAgent)
    /\ UNCHANGED <<english_heap, spanish_heap, call_logs, held, ended>>

\* /ivr/feedback
ivr_feedback(t, c, dial_status) ==
    /\ CanBegin(t)
    /\ IF /\ dial_status \notin {None, "completed"}
          /\ c \in DOMAIN active_calls
          /\ active_calls[c].agent_id # NoAgent
       THEN LET a == active_calls[c].agent_id
                r == release_agent(agents, english_heap, spanish_heap, busy_agents, a, 0)
            IN /\ TotalCalls(agents) < MaxTotalCalls
               /\ agents' = r.agents
               /\ english_heap' = r.english
               /\ spanish_heap' = r.spanish
               /\ busy_agents' = r.busy
               /\ held' = held \ {a}
               /\ last' = Did("release_agent", c, "agent_failed", NoAgent)
       ELSE /\ UNCHANGED last
            /\ UNCHANGED <<dispatcher, held>>
    /\ UNCHANGED <<active_calls, call_logs, thr, ended>>

\* end_call_session: what it returns and the store it leaves.
end_call_session(calls, c, t) ==
    IF c \in DOMAIN calls
    THEN [session |-> calls[c], duration |-> t - calls[c].start_time,
          found |-> TRUE, calls |-> RemoveSession(calls, c)]
    ELSE [session |-> NoSession, duration |-> 0, found |-> FALSE, calls |-> calls]

\* AfterEnd going to release_agent past the feedback block.
AfterEnd_SkipFeedback(session, digit, has_log) ==
    IF session.agent_id # NoAgent THEN "cb_release" ELSE "idle"

\* AfterEnd releasing the agent only behind a rating.
AfterEnd_ReleaseOnRating(session, digit, has_log) ==
    IF Rating(digit) # 0 /\ has_log /\ session.agent_id # NoAgent THEN "cb_feedback"
    ELSE "idle"

\* Where plivo_callback goes once end_call_session returned a session.
AfterEnd(session, digit, has_log) ==
    IF Rating(digit) # 0 /\ has_log /\ session.agent_id # NoAgent THEN "cb_feedback"
    ELSE IF session.agent_id # NoAgent THEN "cb_release"
    ELSE "idle"

\* /plivo/callback up to the return of end_call_session.
plivo_callback(t, c, digit) ==
    /\ CanBegin(t)
    /\ \E tm \in Clock(c) :
       LET r == end_call_session(active_calls, c, tm)
           next == AfterEnd(r.session, digit, c \in call_logs)
       IN /\ active_calls' = r.calls
          /\ IF r.found
             THEN /\ ended' = ended \cup {c}
                  /\ last' = Did("end_call_session", c, "session", NoAgent)
                  /\ thr' = [thr EXCEPT ![t] =
                              IF next = "idle" THEN Idle
                              ELSE [Idle EXCEPT !.pc = next, !.call = c,
                                                !.agent_id = r.session.agent_id,
                                                !.rating = IF next = "cb_feedback"
                                                           THEN Rating(digit) ELSE 0,
                                                !.duration = r.duration]]
             ELSE /\ last' = Did("end_call_session", c, "missing", NoAgent)
                  /\ UNCHANGED <<thr, ended>>
    /\ UNCHANGED <<dispatcher, call_logs, held>>

\* /plivo/callback: update_agent_feedback, which takes no lock.
cb_feedback(t) ==
    /\ thr[t].pc = "cb_feedback"
    /\ agents' = update_agent_feedback(agents, thr[t].agent_id, thr[t].rating)
    /\ thr' = [thr EXCEPT ![t].pc = "cb_release", ![t].rating = 0]
    /\ last' = Did("update_agent_feedback", thr[t].call, "committed", NoAgent)
    /\ UNCHANGED <<english_heap, spanish_heap, busy_agents, active_calls, call_logs,
                   held, ended>>

\* /plivo/callback: release_agent(agent_id, duration).
cb_release(t) ==
    /\ thr[t].pc = "cb_release"
    /\ TotalCalls(agents) < MaxTotalCalls
    /\ LET r == release_agent(agents, english_heap, spanish_heap, busy_agents,
                              thr[t].agent_id, thr[t].duration)
       IN /\ agents' = r.agents
          /\ english_heap' = r.english
          /\ spanish_heap' = r.spanish
          /\ busy_agents' = r.busy
    /\ held' = held \ {thr[t].agent_id}
    /\ thr' = [thr EXCEPT ![t] = Idle]
    /\ last' = Did("release_agent", thr[t].call, "thanks", NoAgent)
    /\ UNCHANGED <<active_calls, call_logs, ended>>

\* /api/reset-agents: every row made available and committed.
reset_agents(t) ==
    /\ CanBegin(t)
    /\ agents' = [a \in AgentIds |-> [agents[a] EXCEPT !.is_available = TRUE]]
    /\ thr' = [thr EXCEPT ![t] = [Idle EXCEPT !.pc = "reset_init"]]
    /\ last' = Did("reset_agents", None, "committed", NoAgent)
    /\ UNCHANGED <<english_heap, spanish_heap, busy_agents, active_calls, call_logs,
                   held, ended>>

\* /api/reset-agents: agent_heap_manager.initialize_heaps().
reset_init(t) ==
    /\ thr[t].pc = "reset_init"
    /\ LET r == initialize_heaps(agents, english_heap, spanish_heap)
       IN /\ english_heap' = r.english
          /\ spanish_heap' = r.spanish
    /\ thr' = [thr EXCEPT ![t] = Idle]
    /\ last' = Did("initialize_heaps", None, "reset_ok", NoAgent)
    /\ UNCHANGED <<agents, busy_agents, active_calls, call_logs, held, ended>>

Next ==
    \/ \E t \in Threads, c \in CallIds : ivr_start(t, c)
    \/ \E t \in Threads : ivr_start_create(t)
    \/ \E t \in Threads, c \in CallIds, d \in LanguageDigits : ivr_language(t, c, d)
    \/ \E t \in Threads, c \in CallIds : ivr_menu(t, c)
    \/ \E t \in Threads, c \in CallIds, d \in ActionDigits : ivr_action(t, c, d)
    \/ \E t \in Threads : ivr_action_mark(t)
    \/ \E t \in Threads, c \in CallIds, s \in DialStatuses : ivr_feedback(t, c, s)
    \/ \E t \in Threads, c \in CallIds, d \in FeedbackDigits : plivo_callback(t, c, d)
    \/ \E t \in Threads : cb_feedback(t)
    \/ \E t \in Threads : cb_release(t)
    \/ \E t \in Threads : reset_agents(t)
    \/ \E t \in Threads : reset_init(t)

Spec == Init /\ [][Next]_vars

\* ------------------------------------------- the AgentHeapManager on its own
\* The manager's methods called directly, each with any argument, and the two
\* writes to the agents table made outside it (reset_agents' commit and the
\* unlocked update_agent_feedback).  The handlers' variables stay as they are.
app == <<active_calls, call_logs, thr, ended>>

DGetBest(language) ==
    LET r == get_best_agent(agents, english_heap, spanish_heap, busy_agents, language)
    IN /\ agents' = r.agents
       /\ english_heap' = r.english
       /\ spanish_heap' = r.spanish
       /\ held' = IF r.agent_id = NoAgent THEN held ELSE held \cup {r.agent_id}
       /\ last' = Did("get_best_agent", None,
                      IF r.agent_id = NoAgent THEN "no_agent" ELSE "agent", r.agent_id)
       /\ UNCHANGED <<busy_agents, app>>

DMarkBusy(a, c) ==
    LET r == mark_agent_busy(agents, busy_agents, a, c)
    IN /\ agents' = r.agents
       /\ busy_agents' = r.busy
       /\ last' = Did("mark_agent_busy", c, "marked", a)
       /\ UNCHANGED <<english_heap, spanish_heap, held, app>>

DRelease(a, d) ==
    LET r == release_agent(agents, english_heap, spanish_heap, busy_agents, a, d)
    IN /\ TotalCalls(agents) < MaxTotalCalls
       /\ agents' = r.agents
       /\ english_heap' = r.english
       /\ spanish_heap' = r.spanish
       /\ busy_agents' = r.busy
       /\ held' = held \ {a}
       /\ last' = Did("release_agent", None,
                      IF a \in DOMAIN busy_agents THEN "released_busy" ELSE "released", a)
       /\ UNCHANGED app

DFeedback(a, rating) ==
    /\ TotalFeedback(agents) < MaxTotalCalls
    /\ agents' = update_agent_feedback(agents, a, rating)
    /\ last' = Did("update_agent_feedback", None, "committed", a)
    /\ UNCHANGED <<english_heap, spanish_heap, busy_agents, held, app>>

DInitialize ==
    LET r == initialize_heaps(agents, english_heap, spanish_heap)
    IN /\ english_heap' = r.english
       /\ spanish_heap' = r.spanish
       /\ last' = Did("initialize_heaps", None,
                      IF last.op = "initialize_heaps" THEN "rebuilt_again" ELSE "rebuilt",
                      NoAgent)
       /\ UNCHANGED <<agents, busy_agents, held, app>>

DResetRows ==
    /\ agents' = [a \in AgentIds |-> [agents[a] EXCEPT !.is_available = TRUE]]
    /\ last' = Did("reset_agents", None, "committed", NoAgent)
    /\ UNCHANGED <<english_heap, spanish_heap, busy_agents, held, app>>

\* The three reservation calls alone.
NextReserve ==
    \/ \E l \in Languages \cup {None} : DGetBest(l)
    \/ \E a \in AgentIds, c \in CallIds : DMarkBusy(a, c)
    \/ \E a \in AgentIds, d \in Seconds : DRelease(a, d)

SpecReserve == Init /\ [][NextReserve]_vars

NextDispatcher ==
    \/ \E l \in Languages \cup {None} : DGetBest(l)
    \/ \E a \in AgentIds, c \in CallIds : DMarkBusy(a, c)
    \/ \E a \in AgentIds, d \in Seconds : DRelease(a, d)
    \/ \E a \in AgentIds : DFeedback(a, 4)
    \/ DInitialize
    \/ DResetRows

SpecDispatcher == Init /\ [][NextDispatcher]_vars

\* ------------------------------------------------- the rolling-window reset
\* reset_recent_call_counts is the one method whose `with self.lock:` body is
\* more than one step: it calls initialize_heaps, which takes self.lock itself.
\* self.lock is a threading.Lock (not reentrant); it is held by the thread
\* that is inside the body of reset_recent_call_counts.
LockHeld == \E t \in Threads : thr[t].pc \in {"rrc_locked", "rrc_blocked"}

\* reset_recent_call_counts from `with self.lock:` to db.session.commit().
reset_recent_call_counts(t) ==
    /\ CanBegin(t)
    /\ ~LockHeld
    /\ agents' = [a \in AgentIds |-> [agents[a] EXCEPT !.recent_call_count = 0]]
    /\ thr' = [thr EXCEPT ![t] = [Idle EXCEPT !.pc = "rrc_locked"]]
    /\ last' = Did("reset_recent_call_counts", None, "committed", NoAgent)
    /\ UNCHANGED <<english_heap, spanish_heap, busy_agents, active_calls, call_logs,
                   held, ended>>

\* reset_recent_call_counts at self.initialize_heaps(): the `with self.lock:`
\* of initialize_heaps.  While the lock is held the acquire waits; once it is
\* free the heaps are rebuilt and both methods return.
rrc_initialize(t) ==
    /\ thr[t].pc \in {"rrc_locked", "rrc_blocked"}
    /\ IF LockHeld
       THEN /\ thr' = [thr EXCEPT ![t].pc = "rrc_blocked"]
            /\ UNCHANGED <<english_heap, spanish_heap, last>>
       ELSE LET r == initialize_heaps(agents, english_heap, spanish_heap)
            IN /\ english_heap' = r.english
               /\ spanish_heap' = r.spanish
               /\ thr' = [thr EXCEPT ![t] = Idle]
               /\ last' = Did("initialize_heaps", None, "reset_ok", NoAgent)
    /\ UNCHANGED <<agents, busy_agents, active_calls, call_logs, held, ended>>

\* The reset beside the reservation calls, each of which takes the lock.
NextWindow ==
    \/ \E l \in Languages : ~LockHeld /\ DGetBest(l)
    \/ \E a \in AgentIds, c \in CallIds : ~LockHeld /\ DMarkBusy(a, c)
    \/ \E a \in AgentIds, d \in Seconds : ~LockHeld /\ DRelease(a, d)
    \/ \E t \in Threads : reset_recent_call_counts(t)
    \/ \E t \in Threads : rrc_initialize(t)

\* A thread that is inside a method keeps running.
SpecWindow ==
    Init /\ [][NextWindow]_vars /\ \A t \in Threads : WF_vars(rrc_initialize(t))

\* ------------------------------------------------------ feedback and score
\* The ratings update_agent_feedback is given here.
Ratings == {2, 4}

\* update_agent_feedback and release_agent called directly, beside
\* get_best_agent.
NextFeedback ==
    \/ \E a \in AgentIds, r \in Ratings : DFeedback(a, r)
    \/ \E a \in AgentIds, d \in Seconds : DRelease(a, d)
    \/ \E l \in Languages : DGetBest(l)

SpecFeedback == Init /\ [][NextFeedback]_vars

\* ------------------------------------- end_call_session, statement by statement
\* end_call_session takes no lock: between its membership test, its read of
\* the session and its del, another thread's statements can run.  A thread in
\* it keeps the request's rating in thr[t].rating and, once read, the
\* session's agent_id and the duration in thr[t].
DigitOf(rating) == CHOOSE d \in FeedbackDigits : Rating(d) = rating

\* /plivo/callback to `if call_uuid in active_calls:`
cb_end_test(t, c, digit) ==
    /\ CanBegin(t)
    /\ IF c \in DOMAIN active_calls
       THEN /\ thr' = [thr EXCEPT ![t] = [Idle EXCEPT !.pc = "end_read", !.call = c,
                                                      !.rating = Rating(digit)]]
            /\ UNCHANGED last
       ELSE /\ last' = Did("end_call_session", c, "missing", NoAgent)
            /\ UNCHANGED thr
    /\ UNCHANGED <<dispatcher, active_calls, call_logs, held, ended>>

\* `session = active_calls[call_uuid]` and the duration; KeyError when the
\* session has gone since the test.
cb_end_read(t) ==
    /\ thr[t].pc = "end_read"
    /\ IF thr[t].call \in DOMAIN active_calls
       THEN /\ \E tm \in Clock(thr[t].call) :
                 thr' = [thr EXCEPT ![t].pc = "end_del",
                                    ![t].agent_id = active_calls[thr[t].call].agent_id,
                                    ![t].duration =
                                        tm - active_calls[thr[t].call].start_time]
            /\ UNCHANGED last
       ELSE /\ thr' = [thr EXCEPT ![t] = Idle]
            /\ last' = Did("end_call_session", thr[t].call, "KeyError", NoAgent)
    /\ UNCHANGED <<dispatcher, active_calls, call_logs, held, ended>>

\* `del active_calls[call_uuid]` and the return to plivo_callback; KeyError
\* when another thread has deleted the session since the test.
cb_end_del(t) ==
    /\ thr[t].pc = "end_del"
    /\ IF thr[t].call \in DOMAIN active_calls
       THEN LET session == [NoSession EXCEPT !.agent_id = thr[t].agent_id]
                next == AfterEnd(session, DigitOf(thr[t].rating),
                                 thr[t].call \in call_logs)
            IN /\ active_calls' = RemoveSession(active_calls, thr[t].call)
               /\ ended' = ended \cup {thr[t].call}
               /\ last' = Did("end_call_session", thr[t].call, "session", NoAgent)
               /\ thr' = [thr EXCEPT ![t] =
                            IF next = "idle" THEN Idle
                            ELSE [thr[t] EXCEPT !.pc = next,
                                                !.rating = IF next = "cb_feedback"
                                                           THEN @ ELSE 0]]
       ELSE /\ thr' = [thr EXCEPT ![t] = Idle]
            /\ last' = Did("end_call_session", thr[t].call, "KeyError", NoAgent)
            /\ UNCHANGED <<active_calls, ended>>
    /\ UNCHANGED <<dispatcher, call_logs, held>>

\* A call from /ivr/start to its completion callbacks, the callbacks running
\* end_call_session statement by statement.
NextCallback ==
    \/ \E t \in Threads, c \in CallIds : ivr_start(t, c)
    \/ \E t \in Threads : ivr_start_create(t)
    \/ \E t \in Threads, c \in CallIds, d \in LanguageDigits : ivr_language(t, c, d)
    \/ \E t \in Threads, c \in CallIds, d \in ActionDigits : ivr_action(t, c, d)
    \/ \E t \in Threads : ivr_action_mark(t)
    \/ \E t \in Threads, c \in CallIds, d \in FeedbackDigits : cb_end_test(t, c, d)
    \/ \E t \in Threads : cb_end_read(t)
    \/ \E t \in Threads : cb_end_del(t)
    \/ \E t \in Threads : cb_feedback(t)
    \/ \E t \in Threads : cb_release(t)

SpecCallback == Init /\ [][NextCallback]_vars

\* ------------------------------------ update_agent_feedback, load and commit
\* update_agent_feedback has no `with self.lock:`.  Its thread loads the row
\* into its own database session (Agent.query.get), adds to the loaded values
\* and commits them; the other methods' bodies can run in between.
FeedbackLocals(a, rating, row) ==
    [pc |-> "fb_loaded", call |-> None, agent_id |-> a, rating |-> rating,
     duration |-> 0,
     total_feedback_score |-> row.total_feedback_score,
     feedback_count |-> row.feedback_count]

\* agent = Agent.query.get(agent_id)
update_agent_feedback_load(t, a, rating) ==
    /\ CanBegin(t)
    /\ TotalFeedback(agents) < MaxTotalCalls
    /\ thr' = [thr EXCEPT ![t] = FeedbackLocals(a, rating, agents[a])]
    /\ UNCHANGED <<dispatcher, active_calls, call_logs, last, held, ended>>

\* agent.total_feedback_score += rating; agent.feedback_count += 1; commit
update_agent_feedback_commit(t) ==
    /\ thr[t].pc = "fb_loaded"
    /\ agents' = [agents EXCEPT
                    ![thr[t].agent_id].total_feedback_score =
                        thr[t].total_feedback_score + thr[t].rating,
                    ![thr[t].agent_id].feedback_count = thr[t].feedback_count + 1]
    /\ thr' = [thr EXCEPT ![t] = Idle]
    /\ last' = Did("update_agent_feedback", None, "committed", thr[t].agent_id)
    /\ UNCHANGED <<english_heap, spanish_heap, busy_agents, active_calls, call_logs,
                   held, ended>>

\* release_agent, which takes the lock, whole, beside update_agent_feedback in
\* its two steps.
NextLock ==
    \/ \E t \in Threads, a \in AgentIds, r \in Ratings : update_agent_feedback_load(t, a, r)
    \/ \E t \in Threads : update_agent_feedback_commit(t)
    \/ \E a \in AgentIds, d \in Seconds : DRelease(a, d)

SpecLock == Init /\ [][NextLock]_vars

\* ------------------------------------------------- a pool of English agents
\* get_best_agent on a registry with three English agents (ids 1, 3 and 4; id
\* 2 is the Spanish one and is left out), whose recent_call_count is 0 or 5
\* when the heaps are first built.
PoolIds == {1, 3, 4}
PoolRecentCounts == {0, 5}

\* initialize_heaps on the pool: the available rows pushed in primary-key
\* order.
RECURSIVE BuildPoolHeap(_, _, _)
BuildPoolHeap(ags, ids, h) ==
    IF ids = {} THEN h
    ELSE LET a == CHOOSE x \in ids : \A y \in ids : x <= y
         IN BuildPoolHeap(ags, ids \ {a},
                          IF ags[a].is_available /\ AgentLanguage(a) = "english"
                          THEN heappush(h, Entry(ags[a], a)) ELSE h)

RECURSIVE PoolCalls(_, _)
PoolCalls(ags, ids) ==
    IF ids = {} THEN 0
    ELSE LET a == CHOOSE x \in ids : TRUE
         IN ags[a].total_calls + PoolCalls(ags, ids \ {a})

InitPool ==
    /\ agents \in [PoolIds -> {[NewAgent EXCEPT !.recent_call_count = n] :
                                 n \in PoolRecentCounts}]
    /\ english_heap = BuildPoolHeap(agents, PoolIds, <<>>)
    /\ spanish_heap = <<>>
    /\ busy_agents = <<>>
    /\ active_calls = <<>>
    /\ call_logs = {}
    /\ thr = [t \in Threads |-> Idle]
    /\ last = Did("init_db", None, "started", NoAgent)
    /\ held = {}
    /\ ended = {}

\* release_agent called directly on the pool.
PRelease(a, d) ==
    LET r == release_agent(agents, english_heap, spanish_heap, busy_agents, a, d)
    IN /\ PoolCalls(agents, PoolIds) < MaxTotalCalls
       /\ agents' = r.agents
       /\ english_heap' = r.english
       /\ spanish_heap' = r.spanish
       /\ busy_agents' = r.busy
       /\ held' = held \ {a}
       /\ last' = Did("release_agent", None,
                      IF a \in DOMAIN busy_agents THEN "released_busy" ELSE "released", a)
       /\ UNCHANGED app

NextPool ==
    \/ \E l \in Languages : DGetBest(l)
    \/ \E a \in PoolIds, c \in CallIds : DMarkBusy(a, c)
    \/ \E a \in PoolIds, d \in Seconds : PRelease(a, d)

SpecPool == InitPool /\ [][NextPool]_vars

\* ------------------------------------------------------ a commit that fails
\* get_best_agent when db.session.commit() raises: the entries were popped
\* before the commit, the exception leaves the method through `with
\* self.lock`, and the row keeps its persisted is_available.
get_best_agent_raises(ags, eh, sh, busy, language) ==
    LET r == PopLoop(IF UsesEnglishHeap(language) THEN eh ELSE sh, ags, busy)
    IN [english |-> IF UsesEnglishHeap(language) THEN r.heap ELSE eh,
        spanish |-> IF UsesEnglishHeap(language) THEN sh ELSE r.heap,
        agents |-> ags,
        agent_id |-> r.agent_id]

\* The commit is reached only when the loop found an agent.
DGetBestRaises(language) ==
    LET r == get_best_agent_raises(agents, english_heap, spanish_heap,
                                   busy_agents, language)
    IN /\ r.agent_id # NoAgent
       /\ agents' = r.agents
       /\ english_heap' = r.english
       /\ spanish_heap' = r.spanish
       /\ last' = Did("get_best_agent", None, "raised", r.agent_id)
       /\ UNCHANGED <<busy_agents, held, app>>

NextPersist ==
    \/ \E l \in Languages \cup {None} : DGetBest(l)
    \/ \E l \in Languages \cup {None} : DGetBestRaises(l)
    \/ \E a \in AgentIds, c \in CallIds : DMarkBusy(a, c)
    \/ \E a \in AgentIds, d \in Seconds : DRelease(a, d)
    \/ DInitialize

SpecPersist == Init /\ [][NextPersist]_vars

\* ------------------------------------------------------------- two calls
\* The IVR requests of two calls, served one at a time by thread 1, with
\* /api/reset-agents arriving at any moment, between two requests or in the
\* middle of one. The callback carries no rating digit.
TwoCalls == {"c1", "c2"}

NextCalls ==
    \/ \E c \in TwoCalls : ivr_start(1, c)
    \/ ivr_start_create(1)
    \/ \E c \in TwoCalls, digit \in LanguageDigits : ivr_language(1, c, digit)
    \/ \E c \in TwoCalls, digit \in ActionDigits : ivr_action(1, c, digit)
    \/ ivr_action_mark(1)
    \/ \E c \in TwoCalls, st \in DialStatuses : ivr_feedback(1, c, st)
    \/ \E c \in TwoCalls : plivo_callback(1, c, None)
    \/ cb_release(1)
    \/ \E t \in Threads : reset_agents(t)
    \/ \E t \in Threads : reset_init(t)

SpecCalls == Init /\ [][NextCalls]_vars

\* ------------------------------------------------- delivery of the callback
\* One call whose requests are served one at a time by thread 1: any request
\* may be delivered any number of times, a request that has begun runs to its
\* end, and /plivo/callback is delivered for as long as it has something to
\* end.
\* The last step of /plivo/callback as thr shows it: the request leaves
\* release_agent and its thread is idle again.
cb_release_done(t) ==
    /\ thr[t].pc = "cb_release"
    /\ TotalCalls(agents) < MaxTotalCalls
    /\ thr' = [thr EXCEPT ![t] = Idle]

NextDelivery ==
    \/ \E c \in CallIds : ivr_start(1, c)
    \/ ivr_start_create(1)
    \/ \E c \in CallIds, digit \in LanguageDigits : ivr_language(1, c, digit)
    \/ \E c \in CallIds, digit \in ActionDigits : ivr_action(1, c, digit)
    \/ ivr_action_mark(1)
    \/ \E c \in CallIds, digit \in FeedbackDigits : plivo_callback(1, c, digit)
    \/ cb_feedback(1)
    \/ cb_release(1)

SpecDelivery ==
    /\ Init
    /\ [][NextDelivery]_vars
    /\ WF_vars(ivr_start_create(1))
    /\ WF_vars(ivr_action_mark(1))
    /\ WF_vars(cb_feedback(1))
    /\ WF_thr(cb_release_done(1))
    /\ WF_vars(\E c \in CallIds, digit \in FeedbackDigits : plivo_callback(1, c, digit))

\* ------------------------------------------- reservations and rebuilds
\* Selections, reservations, releases and rebuilds of the heaps, in any order.
NextRebuild ==
    \/ \E l \in Languages \cup {None} : DGetBest(l)
    \/ \E a \in AgentIds, c \in CallIds : DMarkBusy(a, c)
    \/ \E a \in AgentIds, d \in Seconds : DRelease(a, d)
    \/ DInitialize

SpecRebuild == Init /\ [][NextRebuild]_vars

\* ------------------------------------------------------------------ claims
\* The number of entries of agent a in heap h.
RECURSIVE Count(_, _)
Count(h, a) ==
    IF h = <<>> THEN 0 ELSE (IF h[1].id = a THEN 1 ELSE 0) + Count(Tail(h), a)

\* The queue of a known language, and the other one.
QueueOf(l) == IF l = "english" THEN english_heap ELSE spanish_heap
QueueOfNext(l) == IF l = "english" THEN english_heap' ELSE spanish_heap'
OtherLanguage(l) == IF l = "english" THEN "spanish" ELSE "english"

\* C1: whatever language it is called with, get_best_agent never returns an
\* agent whose is_available is false, or whose id is in busy_agents, at the
\* moment of the call.
C1_SelectedIsEligible ==
    [][\A l \in Languages \cup {None} :
          (DGetBest(l) /\ last'.agent_id # NoAgent) =>
              /\ agents[last'.agent_id].is_available
              /\ last'.agent_id \notin DOMAIN busy_agents]_vars

\* C1 witness: get_best_agent has returned an agent while the heap it popped
\* still holds an entry of an agent that is busy or unavailable.
C1_Witness ==
    /\ last.op = "get_best_agent"
    /\ last.agent_id # NoAgent
    /\ \E a \in AgentIds :
          /\ Count(QueueOf(AgentLanguage(a)), a) > 0
          /\ (a \in DOMAIN busy_agents \/ ~agents[a].is_available)

\* C2: under any interleaving of get_best_agent, mark_agent_busy and
\* release_agent calls, get_best_agent never returns an agent it has already
\* returned unless a release_agent of that agent completed in between.
C2_NoDoubleSelection ==
    [][\A l \in Languages \cup {None} :
          (DGetBest(l) /\ last'.agent_id # NoAgent) => last'.agent_id \notin held]_vars

\* C2 witness: get_best_agent has returned an agent that was released before.
C2_Witness ==
    /\ last.op = "get_best_agent"
    /\ last.agent_id # NoAgent
    /\ agents[last.agent_id].total_calls > 0
    /\ last.agent_id \in held

\* C3: end_call_session called twice in sequence for one call_uuid returns the
\* session the first time and (None, 0) the second time, and the second
\* /plivo/callback goes on to no update_metrics, no update_agent_feedback and
\* no release_agent: its thread stays idle and the dispatcher is untouched.
\* (Every plivo_callback step leaves last.op = "end_call_session".)
C3_SecondEndIsMissing ==
    [][last'.op = "end_call_session" =>
          \A t \in Threads, c \in CallIds, d \in FeedbackDigits :
             /\ (c \in DOMAIN active_calls /\ plivo_callback(t, c, d)) =>
                   /\ last' = Did("end_call_session", c, "session", NoAgent)
                   /\ c \notin DOMAIN active_calls'
                   /\ c \in ended'
             /\ (c \in ended /\ plivo_callback(t, c, d)) =>
                   /\ last' = Did("end_call_session", c, "missing", NoAgent)
                   /\ end_call_session(active_calls, c, 0).duration = 0
                   /\ UNCHANGED <<dispatcher, thr, active_calls>>]_vars

\* C3 witness: the second end_call_session of a call has returned (None, 0).
C3_Witness ==
    /\ last = Did("end_call_session", "c1", "missing", NoAgent)
    /\ "c1" \in ended

C5_EmptyQueueNoAgent ==
    [][\A l \in Languages :
          (DGetBest(l) /\ QueueOf(l) = <<>>) =>
              /\ last' = Did("get_best_agent", None, "no_agent", NoAgent)
              /\ UNCHANGED dispatcher]_vars

\* C5 witness: get_best_agent has returned (None, None) on the empty English
\* queue.  The Spanish queue is not empty, so the call was on the English one;
\* the English agent is available and not busy, so the call has discarded no
\* entry of it: the queue was empty when it was called.
C5_Witness ==
    /\ last = Did("get_best_agent", None, "no_agent", NoAgent)
    /\ english_heap = <<>>
    /\ spanish_heap # <<>>
    /\ Selectable(agents, busy_agents, 1)

\* C6 as it is stated: when the session of the call has a language that is
\* neither 'english' nor 'spanish' (None before a selection), the
\* get_best_agent of /ivr/action returns no agent and reserves none.
C6_UnknownLanguageNoAgent ==
    [][\A t \in Threads, c \in CallIds :
          (/\ ivr_action(t, c, "2")
           /\ c \in DOMAIN active_calls
           /\ active_calls[c].language \notin Languages) =>
              /\ last' = Did("get_best_agent", c, "no_agent", NoAgent)
              /\ agents' = agents]_vars

\* C7: initialize_heaps called twice in a row, no agent row changing in
\* between, leaves after the second call the entries and scores of each queue,
\* and busy_agents, as they were after the first.
C7_RebuildIdempotent ==
    [][(DInitialize /\ last.op = "initialize_heaps") =>
          UNCHANGED <<english_heap, spanish_heap, busy_agents>>]_vars

\* C7 witness: initialize_heaps has run twice in a row on a registry with an
\* available and an unavailable agent.
C7_Witness ==
    /\ last = Did("initialize_heaps", None, "rebuilt_again", NoAgent)
    /\ english_heap # <<>>
    /\ spanish_heap = <<>>

\* C8 as it is stated: when initialize_heaps has completed, busy_agents is
\* empty.
C8_RebuildEmptiesBusy ==
    last.op = "initialize_heaps" => DOMAIN busy_agents = {}

\* C9 as it is stated: create_call_session for a call_uuid that has a session
\* leaves the session's language, agent_id and start_time as they are.
C9_DuplicateCreateNoOp ==
    [][\A t \in Threads :
          (ivr_start_create(t) /\ thr[t].call \in DOMAIN active_calls) =>
              active_calls'[thr[t].call] = active_calls[thr[t].call]]_vars

\* C10 as it is stated: update_call_language for a call_uuid without a session
\* ends in a "missing session" outcome that reaches /ivr/language's answer,
\* and leaves active_calls unchanged.
C10_MissingSessionSurfaced ==
    [][\A t \in Threads, c \in CallIds, d \in LanguageDigits :
          (/\ ivr_language(t, c, d)
           /\ language_map(d) # None
           /\ c \notin DOMAIN active_calls) =>
              /\ last'.out = "missing_session"
              /\ UNCHANGED active_calls]_vars

\* C11 as it is stated: once end_call_session has removed the session of a
\* call_uuid, no step of any handler makes a session of that call_uuid exist
\* in active_calls again.
C11_NoResurrection ==
    [][\A c \in CallIds : c \in ended => c \notin DOMAIN active_calls']_vars

\* C12 as it is stated: /ivr/feedback with a dial status other than
\* 'completed', on a call that has an agent, releases the agent with duration
\* 0; a /plivo/callback that comes for the same call after that, whatever its
\* feedback digit, goes on to no update_agent_feedback and to no second
\* release_agent (its thread is idle again when end_call_session has returned).
C12_FailedDialReleasesOnce ==
    [][\A t \in Threads, c \in CallIds :
          /\ \A s \in DialStatuses :
                (/\ s \notin {None, "completed"}
                 /\ c \in DOMAIN active_calls
                 /\ active_calls[c].agent_id # NoAgent
                 /\ ivr_feedback(t, c, s)) =>
                    LET a == active_calls[c].agent_id
                    IN /\ a \notin DOMAIN busy_agents'
                       /\ agents'[a] = [update_metrics(agents[a], 0)
                                          EXCEPT !.is_available = TRUE]
          /\ \A d \in FeedbackDigits :
                (/\ last = Did("release_agent", c, "agent_failed", NoAgent)
                 /\ plivo_callback(t, c, d)) =>
                    thr'[t].pc = "idle"]_vars

\* C13: when /plivo/callback ends a call that has an agent and the feedback
\* digit is absent or not one of 1..4, the handler goes to release_agent with
\* the duration end_call_session measured, without touching the agents table;
\* and the release_agent of a callback removes the busy entry, makes the agent
\* available, updates its metrics with that duration and pushes its new entry,
\* total_feedback_score and feedback_count staying as they are.
C13_NoDigitStillReleases ==
    [][\A t \in Threads :
          /\ last'.op = "end_call_session" =>
                \A c \in CallIds, d \in FeedbackDigits :
                   (/\ d \notin {"1", "2", "3", "4"}
                    /\ c \in DOMAIN active_calls
                    /\ active_calls[c].agent_id # NoAgent
                    /\ plivo_callback(t, c, d)) =>
                       /\ thr'[t].pc = "cb_release"
                       /\ thr'[t].agent_id = active_calls[c].agent_id
                       /\ \E tm \in Clock(c) :
                             thr'[t].duration = tm - active_calls[c].start_time
                       /\ UNCHANGED dispatcher
          /\ cb_release(t) =>
                LET a == thr[t].agent_id
                    row == [update_metrics(agents[a], thr[t].duration)
                              EXCEPT !.is_available = TRUE]
                IN /\ a \notin DOMAIN busy_agents'
                   /\ agents' = [agents EXCEPT ![a] = row]
                   /\ agents'[a].total_feedback_score = agents[a].total_feedback_score
                   /\ agents'[a].feedback_count = agents[a].feedback_count
                   /\ QueueOfNext(AgentLanguage(a)) =
                         heappush(QueueOf(AgentLanguage(a)), Entry(row, a))]_vars

\* C13 witness: a callback with the digit 9 has released its agent after a
\* call of one second, and no feedback was ever folded.
C13_Witness ==
    /\ last = Did("release_agent", "c1", "thanks", NoAgent)
    /\ \E a \in AgentIds :
          /\ agents[a].is_available
          /\ a \notin DOMAIN busy_agents
          /\ agents[a].total_calls = 1
          /\ agents[a].avg_call_duration = RInt(1)
          /\ Count(QueueOf(AgentLanguage(a)), a) > 0
    /\ TotalFeedback(agents) = 0

\* C14 as it is stated: in every reachable state an agent whose is_available
\* is true has entries in at most one of the two heaps, and an agent whose
\* is_available is false has no entry in either heap.
C14_QueuedIffAvailable ==
    \A a \in AgentIds :
       /\ agents[a].is_available =>
             (Count(english_heap, a) = 0 \/ Count(spanish_heap, a) = 0)
       /\ ~agents[a].is_available =>
             (Count(english_heap, a) = 0 /\ Count(spanish_heap, a) = 0)

\* C15 as it is stated: reset_recent_call_counts, started while nothing holds
\* the dispatcher lock, terminates: it comes back from initialize_heaps and
\* returns with the lock released.
C15_ResetTerminates ==
    \A t \in Threads : (thr[t].pc = "rrc_locked") ~> (thr[t].pc = "idle" /\ ~LockHeld)

\* C16 as it is stated: a step that changes any agent's is_available or
\* metrics is a step of get_best_agent, mark_agent_busy, release_agent or
\* update_agent_feedback; every other step of the application leaves the
\* agents table as it is.
C16_OnlyDispatcherWritesAgents ==
    [][agents' # agents =>
          last'.op \in {"get_best_agent", "mark_agent_busy", "release_agent",
                        "update_agent_feedback"}]_vars

\* The row of agent a as release_agent(a, d) leaves it, with the feedback
\* accumulators taken out.
ReleasedWithoutFeedback(a, d) ==
    [update_metrics(agents[a], d) EXCEPT !.is_available = TRUE,
                                         !.total_feedback_score = 0,
                                         !.feedback_count = 0]

C18_ConcurrentCallbacks ==
    [][\A t \in Threads :
          /\ (cb_end_read(t) \/ cb_end_del(t)) =>
                /\ last'.out # "KeyError"
                /\ last'.out = "session" => thr[t].call \notin ended
          /\ cb_release(t) => thr[t].agent_id \in held]_vars

\* C19 as it is stated: the body of a dispatcher operation runs with the lock
\* held, so while a thread is inside update_agent_feedback no other operation
\* changes the dispatcher's state, and the read-modify-write of the feedback
\* accumulators is whole: the commit leaves feedback_count one higher, and
\* total_feedback_score higher by the rating, than they were just before it.
C19_LockCoversFeedback ==
    [][\A t \in Threads :
          /\ thr[t].pc = "fb_loaded" =>
                (dispatcher' = dispatcher \/ update_agent_feedback_commit(t))
          /\ update_agent_feedback_commit(t) =>
                LET a == thr[t].agent_id
                IN /\ agents'[a].feedback_count = agents[a].feedback_count + 1
                   /\ agents'[a].total_feedback_score =
                         agents[a].total_feedback_score + thr[t].rating]_vars

ValidEntries(h) == {i \in DOMAIN h : Selectable(agents, busy_agents, h[i].id)}

\* C21: get_best_agent(language) returns the agent of an entry that is
\* minimal by (score, agent id) among the entries of that language's queue
\* whose agent is available and not busy: no such entry has a lower score, or
\* the same score and a lower id; and it returns no agent when there is none.
C21_MinimalValidEntry ==
    [][\A l \in Languages :
          DGetBest(l) =>
             LET h == QueueOf(l)
             IN IF ValidEntries(h) = {}
                THEN last'.agent_id = NoAgent
                ELSE \E i \in ValidEntries(h) :
                        /\ h[i].id = last'.agent_id
                        /\ \A j \in ValidEntries(h) :
                              /\ ~RLess(h[j].score, h[i].score)
                              /\ h[j].score = h[i].score => h[j].id >= h[i].id]_vars

\* C21 witness: of three English agents with recent_call_count 0, 5 and 0 and
\* nothing else to tell them apart, get_best_agent has returned the one with
\* the lower id of the two with count 0; the other two are still queued.
C21_Witness ==
    /\ last = Did("get_best_agent", None, "agent", 1)
    /\ agents[1].recent_call_count = 0
    /\ agents[3].recent_call_count = 5
    /\ agents[4].recent_call_count = 0
    /\ PoolCalls(agents, PoolIds) = 0
    /\ Count(english_heap, 3) = 1
    /\ Count(english_heap, 4) = 1
    /\ Count(english_heap, 1) = 0

\* C22: when the commit inside get_best_agent fails, the failure reaches the
\* caller and the agent that was being reserved is still persisted as
\* available and still has an entry in the queue of its language.
C22_FailedCommitKeepsEntry ==
    [][\A l \in Languages \cup {None} :
          DGetBestRaises(l) =>
             /\ last'.out = "raised"
             /\ agents'[last'.agent_id].is_available
             /\ Count(QueueOfNext(AgentLanguage(last'.agent_id)), last'.agent_id) >= 1]_vars

\* C23: in every reachable state, no agent id is the assigned agent of two
\* different active call sessions.
C23_NoSharedAgent ==
    \A c, d \in DOMAIN active_calls :
        (c # d /\ active_calls[c].agent_id # NoAgent)
            => active_calls[c].agent_id # active_calls[d].agent_id

\* C24: no language queue holds two entries for the same agent id.
C24_NoDuplicateEntries ==
    \A a \in AgentIds : Count(english_heap, a) <= 1 /\ Count(spanish_heap, a) <= 1

\* C25: provided the completion callback of the call is delivered, every agent
\* marked busy for it is eventually available again, out of busy_agents and
\* back in the queue of its language.
C25_ReservedEventuallyReleased ==
    \A a \in AgentIds :
        (a \in DOMAIN busy_agents)
            ~> (/\ agents[a].is_available
                /\ a \notin DOMAIN busy_agents
                /\ Count(QueueOf(AgentLanguage(a)), a) >= 1)

====
